---- MODULE Spec2Model ----
(***************************************************************************)
(* Base58Check encoding of a byte buffer of at most 256 bits, as done by   *)
(* the two encoders of main.cpp:                                           *)
(*   ReferenceImpl::encodeBase58  schoolbook multiply-by-256-and-add over  *)
(*                                a caller-provided scratch buffer;        *)
(*   NewImpl::encodeBase58        import as a 256-bit integer, divide by   *)
(*                                58^10, ten base-58 digits per chunk.     *)
(* One behaviour is the first block of main(): the reference encoder runs  *)
(* on a copy of the payload, then the new encoder on a fresh copy.         *)
(*                                                                         *)
(* Numbers wider than 31 bits are kept as limb sequences: the 256-bit       *)
(* integer as 32 limbs of 8 bits, least significant first; a 64-bit unit   *)
(* as 4 decimal limbs of 6 digits, most significant first.                 *)
(***************************************************************************)
EXTENDS Integers, Sequences, FiniteSets, TLC

\* ---------------------------------------------------------------- constants

rippleAlphabet ==
    << "r", "p", "s", "h", "n", "a", "f", "3", "9", "w", "B", "U", "D", "N",
       "E", "G", "H", "J", "K", "L", "M", "4", "P", "Q", "R", "S", "T", "7",
       "V", "W", "X", "Y", "Z", "2", "b", "c", "d", "e", "C", "g", "6", "5",
       "j", "k", "m", "8", "o", "F", "q", "i", "1", "t", "u", "v", "A", "x",
       "y", "z" >>

\* the radix of the output digits
Radix == 58
\* one more than the largest value of an unsigned char
ByteBase == 256
\* number of bytes memcpy'd over the start of the message
ChecksumLen == 4
\* 256 / 8: the largest size NewImpl accepts
MaxBytes == 32
\* base-58 digits taken from each coefficient
ChunkDigits == 10
\* capacity of the static_vector of coefficients
CoeffCapacity == 5
\* limbs of the 256-bit integer (8 bits each)
MPLimbs == 32
\* a decimal limb of a 64-bit unit holds 6 digits
U64Base == 1000000
\* 58^5 where 58^10 is meant
b585 == << 0, 0, 656, 356768 >>
\* 58^10 = 430804206899405824, in decimal limbs
b5810 == << 0, 430804, 206899, 405824 >>

\* ------------------------------------------------------------------- bounds

\* sizes up to MaxBytes + MaxOver are tried
MaxOver == 1
\* scratch lengths down to MaxShort below the digit count needed are tried
MaxShort == 1

\* ------------------------------------------------------------ limb helpers

Min(S) == CHOOSE x \in S : \A y \in S : x <= y
Max(S) == CHOOSE x \in S : \A y \in S : x >= y

\* A for loop: st after Step(st, lo), Step(.., lo + 1), ..., Step(.., hi).
\* The range is halved rather than walked and st is looked at before each
\* half, which keeps the evaluation shallow; every st here is a record.
RECURSIVE Iterate(_, _, _, _)
Iterate(Step(_, _), st, lo, hi) ==
    IF lo > hi \/ DOMAIN st = {} THEN st
    ELSE IF lo = hi THEN Step(st, lo)
    ELSE LET mid == (lo + hi) \div 2
         IN  Iterate(Step, Iterate(Step, st, lo, mid), mid + 1, hi)

\* x < y, for limb sequences of equal length, most significant limb first
U64Less(x, y) ==
    LET d == { i \in 1..Len(x) : x[i] # y[i] }
    IN  d # {} /\ x[Min(d)] < y[Min(d)]

\* 2 * x + carry, from limb i down
RECURSIVE U64Double(_, _, _)
U64Double(x, i, c) ==
    IF i = 0 THEN x
    ELSE LET v == 2 * x[i] + c
         IN  U64Double([x EXCEPT ![i] = v % U64Base], i - 1, v \div U64Base)

\* x - y - borrow for x >= y, from limb i down
RECURSIVE U64Sub(_, _, _, _)
U64Sub(x, y, i, borrow) ==
    IF i = 0 THEN x
    ELSE LET v == x[i] - y[i] - borrow
         IN  IF v < 0
             THEN U64Sub([x EXCEPT ![i] = v + U64Base], y, i - 1, 1)
             ELSE U64Sub([x EXCEPT ![i] = v], y, i - 1, 0)

\* c / 58 and c % 58 of a 64-bit unit, from limb i up with remainder r
RECURSIVE U64DivMod58(_, _, _)
U64DivMod58(c, i, r) ==
    IF i > Len(c) THEN [quot |-> c, rem |-> r]
    ELSE LET v == r * U64Base + c[i]
         IN  U64DivMod58([c EXCEPT ![i] = v \div Radix], i + 1, v % Radix)

U64Zero == [i \in 1..4 |-> 0]
MPZero == [i \in 1..MPLimbs |-> 0]

\* One bit of the long division of a 256-bit integer by a 64-bit unit, the
\* k-th from the most significant: rem = 2 * rem + bit, minus d when it fits.
DivBit(st, k) ==
    LET bitIndex == 8 * MPLimbs - k
        limb == (bitIndex \div 8) + 1
        weight == 2 ^ (bitIndex % 8)
        bit == (st.n[limb] \div weight) % 2
        r2 == U64Double(st.rem, Len(st.rem), bit)
    IN  IF U64Less(r2, st.d)
        THEN [st EXCEPT !.rem = r2]
        ELSE [st EXCEPT !.rem = U64Sub(r2, st.d, Len(r2), 0),
                        !.quot = [@ EXCEPT ![limb] = @ + weight]]

\* n / d and n % d (operator/ and operator% of the 256-bit integer)
MPDivMod(n, d) ==
    Iterate(DivBit, [n |-> n, d |-> d, quot |-> MPZero, rem |-> U64Zero],
            1, 8 * MPLimbs)

\* ------------------------------------------------------------------- state

VARIABLES
    orig,              \* toDecodeBigEndian: the payload the caller holds
    size,              \* toDecodeNBytes: the size passed to both encoders
    digest,            \* what the double hash of orig begins with
    ndebug,            \* the build: TRUE when assert() is compiled out
    temp_size,         \* length of the scratch buffer given to the reference
    pc,                \* where the run is
    message,           \* from: the callee's view of the copy, and the 4 bytes after it
    written,           \* offsets of message the current call has written
    zeroes,            \* ReferenceImpl: leading zero bytes counted
    pbegin,            \* ReferenceImpl: offset of the next byte to consume
    b58,               \* ReferenceImpl: the scratch buffer temp
    carry,             \* ReferenceImpl: carry left by the last pass
    referenceEncoded,  \* main: what the reference encoder returned
    toDecodeMP,        \* NewImpl: the 256-bit integer
    coeff,             \* NewImpl: the coefficients in base 58^10
    emitted,           \* NewImpl: coefficients already turned into digits
    result,            \* NewImpl: the digits, least significant first
    newEncoded,        \* main: what the new encoder returned
    returned           \* which encoders have returned a string

vars == << orig, size, digest, ndebug, temp_size, pc, message, written, zeroes,
           pbegin, b58, carry, referenceEncoded, toDecodeMP, coeff, emitted,
           result, newEncoded, returned >>

inputVars == << orig, size, digest, ndebug, temp_size >>
refVars == << zeroes, pbegin, b58, carry, referenceEncoded >>
newVars == << toDecodeMP, coeff, emitted, result, newEncoded >>

\* ------------------------------------------------------------------ inputs

Fill(n, b) == [i \in 1..n |-> b]

\* 58^20 + 1: coefficients {1, 0, 1} (the case named at line 147)
Vec101 == << 35, 190, 103, 181, 240, 242, 136, 154, 175, 80, 83, 1, 16, 0, 1 >>

Sizes == {0, 1, 2, 3, 4, 5, 8, 20} \cup (MaxBytes..(MaxBytes + MaxOver))

Payloads == { Fill(n, b) : n \in Sizes, b \in {0, 255} } \cup { Vec101 }

Digests == { << 0, 0, 0, 0 >>, << 0, 0, 1, 255 >>, << 255, 255, 255, 255 >>,
             SubSeq(Vec101, 1, ChecksumLen) }

\* ceil(n * log(256) / log(58)): the base-58 digits n bytes can need
MinDigits(n) == (n * 1365659 + 999999) \div 1000000

TempSizes(n) ==
    { 0, MinDigits(n), 3 * n } \cup
    { MinDigits(n) - k : k \in { j \in 1..MaxShort : j <= MinDigits(n) } }

\* the bytes that follow the caller's array in memory
Adjacent == Fill(ChecksumLen, 170)

\* ---------------------------------------------------------------- checksum

\* The first four bytes of sha256(sha256(msg)).  sha256 is libsodium's; the
\* model knows its value on the caller's payload (digest) and that other
\* contents hash to something else.
checksum(msg) ==
    IF msg = orig THEN digest ELSE [i \in 1..ChecksumLen |-> 255 - digest[i]]

\* a copy that stops one byte short
Memcpy3(mem, cs) ==
    [i \in 1..Len(mem) |-> IF i < ChecksumLen THEN cs[i] ELSE mem[i]]

\* std::memcpy(message, cs.data(), 4): four bytes from offset 0
Memcpy4(mem, cs) ==
    [i \in 1..Len(mem) |-> IF i <= ChecksumLen THEN cs[i] ELSE mem[i]]

Memcpy4Offsets == 0..(ChecksumLen - 1)

\* the size bytes the encoder reads
Payload(mem) == SubSeq(mem, 1, size)

\* --------------------------------------------------------------------- Init

Init ==
    /\ orig \in Payloads
    /\ size = Len(orig)
    /\ digest \in Digests
    /\ ndebug \in BOOLEAN
    /\ temp_size \in TempSizes(Len(orig))
    /\ pc = "ref_checksum"
    /\ message = orig \o Adjacent
    /\ written = {}
    /\ zeroes = 0
    /\ pbegin = 0
    /\ b58 = << >>
    /\ carry = 0
    /\ referenceEncoded = << >>
    /\ toDecodeMP = MPZero
    /\ coeff = << >>
    /\ emitted = 0
    /\ result = << >>
    /\ newEncoded = << >>
    /\ returned = {}

\* ---------------------------------------------------------- ReferenceImpl

\* lines 38-43: checksum of the message, then the first four bytes overwritten.
\* With size < 4 the copy runs past the payload: it lands in the bytes behind
\* it, or the process dies.
RefChecksum ==
    /\ pc = "ref_checksum"
    /\ \/ /\ message' = Memcpy4(message, checksum(Payload(message)))
          /\ written' = Memcpy4Offsets
          /\ pc' = "ref_skip"
       \/ /\ size < ChecksumLen
          /\ pc' = "crashed"
          /\ UNCHANGED << message, written >>
    /\ UNCHANGED << inputVars, refVars, newVars, returned >>

\* lines 49-54 and 76-78: how many zeroes a sequence begins with
CountZeroes(seq) ==
    Min({ i - 1 : i \in { j \in 1..Len(seq) : seq[j] # 0 } } \cup { Len(seq) })

\* lines 45-59: skip and count leading zeroes, zero-fill the scratch buffer
RefSkipZeroes ==
    /\ pc = "ref_skip"
    /\ zeroes' = CountZeroes(Payload(message))
    /\ pbegin' = CountZeroes(Payload(message))
    /\ b58' = Fill(temp_size, 0)
    /\ pc' = "ref_loop"
    /\ UNCHANGED << inputVars, message, written, carry, referenceEncoded,
                    newVars, returned >>

\* the carry divided by the wrong base
MulAddDigitWrongCarry(st, k) ==
    LET i == Len(st.b58) - k + 1
        v == st.carry + ByteBase * st.b58[i]
    IN  [b58 |-> [st.b58 EXCEPT ![i] = v % Radix], carry |-> v \div ByteBase]

\* lines 67-69, the k-th digit from the end: carry += 256 * iter[-1];
\* iter[-1] = carry % 58; carry /= 58
MulAddDigit(st, k) ==
    LET i == Len(st.b58) - k + 1
        v == st.carry + ByteBase * st.b58[i]
    IN  [b58 |-> [st.b58 EXCEPT ![i] = v % Radix], carry |-> v \div Radix]

\* lines 63-70: b58 = b58 * 256 + ch, from the last digit to the first
MulAddPass(buf, ch) ==
    Iterate(MulAddDigit, [b58 |-> buf, carry |-> ch], 1, Len(buf))

\* lines 61-73: one pass of the while loop; assert(carry == 0) stops a debug build
RefPass ==
    /\ pc = "ref_loop"
    /\ pbegin # size
    /\ LET p == MulAddPass(b58, message[pbegin + 1])
       IN  /\ b58' = p.b58
           /\ carry' = p.carry
           /\ IF p.carry # 0 /\ ~ndebug
              THEN pc' = "ref_aborted" /\ pbegin' = pbegin
              ELSE pc' = "ref_loop" /\ pbegin' = pbegin + 1
    /\ UNCHANGED << inputVars, message, written, zeroes, referenceEncoded,
                    newVars, returned >>

\* lines 75-85: z copies of alphabet[0], then the digits from the first
\* nonzero one on
RefString(z, buf, alphabet) ==
    LET iter == CountZeroes(buf)
    IN  [i \in 1..z |-> alphabet[1]] \o
        [i \in 1..(Len(buf) - iter) |-> alphabet[buf[iter + i] + 1]]

\* lines 75-86 and main 193-196: the reference returns; main makes a fresh copy
RefReturn ==
    /\ pc = "ref_loop"
    /\ pbegin = size
    /\ referenceEncoded' = RefString(zeroes, b58, rippleAlphabet)
    /\ returned' = returned \cup {"ref"}
    /\ message' = orig \o Adjacent
    /\ written' = {}
    /\ pc' = "new_check"
    /\ UNCHANGED << inputVars, zeroes, pbegin, b58, carry, newVars >>

\* ---------------------------------------------------------------- NewImpl

\* the bound off by one
TooLargeOffByOne(n) == n > MaxBytes + 1

\* line 96: size > 256 / 8
TooLarge(n) == n > MaxBytes

\* lines 96-100: assert(0) stops a debug build, the other throws
NewCheckSize ==
    /\ pc = "new_check"
    /\ pc' = IF TooLarge(size)
             THEN (IF ndebug THEN "new_thrown" ELSE "new_aborted")
             ELSE "new_checksum"
    /\ UNCHANGED << inputVars, message, written, refVars, newVars, returned >>

\* lines 102-107: as in the reference
NewChecksum ==
    /\ pc = "new_checksum"
    /\ \/ /\ message' = Memcpy4(message, checksum(Payload(message)))
          /\ written' = Memcpy4Offsets
          /\ pc' = "new_import"
       \/ /\ size < ChecksumLen
          /\ pc' = "crashed"
          /\ UNCHANGED << message, written >>
    /\ UNCHANGED << inputVars, refVars, newVars, returned >>

\* line 112: import_bits(.., 8, true): the first byte is the most significant
ImportBits(msg) ==
    [k \in 1..MPLimbs |-> IF k <= Len(msg) THEN msg[Len(msg) - k + 1] ELSE 0]

\* lines 109-113
NewImport ==
    /\ pc = "new_import"
    /\ toDecodeMP' = ImportBits(Payload(message))
    /\ pc' = "new_div"
    /\ UNCHANGED << inputVars, message, written, refVars, coeff, emitted,
                    result, newEncoded, returned >>

\* lines 120-126: one turn of the while loop; emplace_back on a full
\* static_vector throws
NewDivStep ==
    /\ pc = "new_div"
    /\ toDecodeMP # MPZero
    /\ IF Len(coeff) = CoeffCapacity
       THEN /\ pc' = "new_overflow"
            /\ UNCHANGED << toDecodeMP, coeff >>
       ELSE LET dm == MPDivMod(toDecodeMP, b5810)
            IN  /\ coeff' = Append(coeff, dm.rem)
                /\ toDecodeMP' = dm.quot
                /\ pc' = "new_div"
    /\ UNCHANGED << inputVars, message, written, refVars, emitted, result,
                    newEncoded, returned >>

\* line 120 false, lines 140-142
NewDivDone ==
    /\ pc = "new_div"
    /\ toDecodeMP = MPZero
    /\ result' = << >>
    /\ emitted' = 0
    /\ pc' = "new_emit"
    /\ UNCHANGED << inputVars, message, written, refVars, toDecodeMP, coeff,
                    newEncoded, returned >>

\* lines 150-152: b58 = c % 58; c /= 58; push_back(alphabet[b58])
EmitDigit(st, k) ==
    LET dm == U64DivMod58(st.c, 1, 0)
    IN  [st EXCEPT !.c = dm.quot,
                   !.str = Append(@, st.alphabet[dm.rem + 1])]

\* the loop left as soon as c is zero
EmitDigitUntilZero(st, k) ==
    IF st.c = U64Zero THEN st ELSE EmitDigit(st, k)

EmitChunkUntilZero(c, str, alphabet) ==
    Iterate(EmitDigitUntilZero, [c |-> c, str |-> str, alphabet |-> alphabet],
            1, ChunkDigits).str

\* lines 148-153: all ten iterations, even when c goes to zero
EmitChunk(c, str, alphabet) ==
    Iterate(EmitDigit, [c |-> c, str |-> str, alphabet |-> alphabet],
            1, ChunkDigits).str

\* lines 144-154: one coefficient, least significant first
NewEmit ==
    /\ pc = "new_emit"
    /\ emitted < Len(coeff)
    /\ result' = EmitChunk(coeff[emitted + 1], result, rippleAlphabet)
    /\ emitted' = emitted + 1
    /\ UNCHANGED << inputVars, pc, message, written, refVars, toDecodeMP,
                    coeff, newEncoded, returned >>

\* lines 158-159: pop_back while the last character is alphabet[0]
StripTrailing(str, zero) ==
    LET keep == { i \in 1..Len(str) : str[i] # zero }
    IN  IF keep = {} THEN << >> ELSE SubSeq(str, 1, Max(keep))

\* line 161: std::reverse
Reverse(str) == [i \in 1..Len(str) |-> str[Len(str) + 1 - i]]

\* lines 156-162: strip, reverse, return
NewReturn ==
    /\ pc = "new_emit"
    /\ emitted = Len(coeff)
    /\ newEncoded' = Reverse(StripTrailing(result, rippleAlphabet[1]))
    /\ returned' = returned \cup {"new"}
    /\ pc' = "done"
    /\ UNCHANGED << inputVars, message, written, refVars, toDecodeMP, coeff,
                    emitted, result >>

Next ==
    \/ RefChecksum
    \/ RefSkipZeroes
    \/ RefPass
    \/ RefReturn
    \/ NewCheckSize
    \/ NewChecksum
    \/ NewImport
    \/ NewDivStep
    \/ NewDivDone
    \/ NewEmit
    \/ NewReturn

Spec == Init /\ [][Next]_vars

\* -------------------------------------------------------------- properties

\* 2^64, in decimal limbs
TwoTo64 == << 18, 446744, 73709, 551616 >>

\* ordinal of a symbol of the alphabet
Ord(ch) == CHOOSE d \in 0..(Radix - 1) : rippleAlphabet[d + 1] = ch

Ords(str) == [i \in 1..Len(str) |-> Ord(str[i])]

InAlphabet(str) ==
    \A i \in 1..Len(str) : \E d \in 1..Radix : rippleAlphabet[d] = str[i]

\* how many copies of z the sequence begins with
LeadingRun(seq, z) ==
    Min({ i - 1 : i \in { j \in 1..Len(seq) : seq[j] # z } } \cup { Len(seq) })

\* acc * 58 + carry over bytes, the k-th byte from the end
Times58Byte(st, k) ==
    LET i == Len(st.acc) - k + 1
        v == st.carry + Radix * st.acc[i]
    IN  [acc |-> [st.acc EXCEPT ![i] = v % ByteBase], carry |-> v \div ByteBase]

\* acc = acc * 58 + digits[k]; ok is lost when the value outgrows acc
AddDigit(st, k) ==
    LET r == Iterate(Times58Byte, [acc |-> st.acc, carry |-> st.digits[k]],
                     1, Len(st.acc))
    IN  [st EXCEPT !.acc = r.acc, !.ok = @ /\ r.carry = 0]

\* the number written by base-58 digits (most significant first), as w bytes
DigitsValue(digits, w) ==
    Iterate(AddDigit, [acc |-> Fill(w, 0), digits |-> digits, ok |-> TRUE],
            1, Len(digits))

\* bytes as a number of w bytes
PadLeft(bytes, w) == Fill(w - Len(bytes), 0) \o bytes

\* TRUE when the digits write exactly the number the bytes write
SameNumber(digits, bytes) ==
    LET v == DigitsValue(digits, Len(bytes))
    IN  v.ok /\ v.acc = bytes

\* the bytes both encoders turn into digits: the payload under its checksum
EncodedPayload ==
    [i \in 1..size |-> IF i <= ChecksumLen THEN digest[i] ELSE orig[i]]

\* the scratch buffer holds every digit size bytes can need
ScratchSuffices == temp_size >= MinDigits(size)

AfterRefChecksum == {"ref_skip", "ref_loop", "ref_aborted"}
AfterNewChecksum == {"new_import", "new_div", "new_overflow", "new_emit", "done"}
InNewImpl == {"new_check", "new_checksum", "new_thrown", "new_aborted"}
                 \cup AfterNewChecksum

\* C1: with a scratch buffer that suffices, both encoders return the same
\* string for every payload of 0 to 32 bytes.
EncodersAgree ==
    (pc = "done" /\ ScratchSuffices) => referenceEncoded = newEncoded

\* C2: each encoder's string begins with as many zero-symbols as the encoded
\* bytes begin with zero bytes.
LeadingZeroesPreserved ==
    /\ "ref" \in returned =>
           LeadingRun(referenceEncoded, rippleAlphabet[1])
               = CountZeroes(EncodedPayload)
    /\ "new" \in returned =>
           LeadingRun(newEncoded, rippleAlphabet[1])
               = CountZeroes(EncodedPayload)

\* C3: a returned string is empty exactly when the payload has no bytes, is n
\* zero-symbols when the n > 0 encoded bytes are all zero, and holds only
\* symbols of the alphabet.
EmptyOnlyForEmptyPayload ==
    /\ ("ref" \in returned /\ ScratchSuffices) =>
           /\ (referenceEncoded = << >>) <=> (size = 0)
           /\ InAlphabet(referenceEncoded)
           /\ EncodedPayload = Fill(size, 0) =>
                  referenceEncoded = Fill(size, rippleAlphabet[1])
    /\ "new" \in returned =>
           /\ (newEncoded = << >>) <=> (size = 0)
           /\ InAlphabet(newEncoded)
           /\ EncodedPayload = Fill(size, 0) =>
                  newEncoded = Fill(size, rippleAlphabet[1])

\* C4: with more than 32 bytes the new encoder stops at its size check:
\* nothing is returned, no checksum is taken and the buffer is untouched.
TooLargeFailsEarly ==
    (size > MaxBytes /\ pc \in InNewImpl) =>
        /\ pc \in {"new_check", "new_thrown", "new_aborted"}
        /\ "new" \notin returned
        /\ newEncoded = << >>
        /\ written = {}
        /\ message = orig \o Adjacent

TooLargeWitness ==
    /\ size > MaxBytes
    /\ pc \in {"new_thrown", "new_aborted"}
    /\ "ref" \in returned

\* C5: a scratch buffer too small for the number shows as a nonzero carry
\* after a pass and stops the encoder; no truncated string is returned.
ScratchOverflowSurfaces ==
    /\ (pc \in AfterRefChecksum /\ carry # 0) => pc = "ref_aborted"
    /\ "ref" \in returned =>
           SameNumber(Ords(referenceEncoded), EncodedPayload)

\* C6: with a scratch buffer of at least ceil(size * log 256 / log 58) digits,
\* after every pass the carry is 0, every digit is below 58 and the scratch
\* buffer writes the number made of the bytes consumed so far.
CarryZeroAfterPass ==
    (pc \in {"ref_loop", "ref_aborted"} /\ ScratchSuffices) =>
        /\ carry = 0
        /\ pc = "ref_loop"
        /\ \A i \in 1..Len(b58) : b58[i] \in 0..(Radix - 1)
        /\ LET v == DigitsValue(b58, size)
           IN  v.ok /\ v.acc = PadLeft(SubSeq(message, 1, pbegin), size)

CarryZeroWitness ==
    /\ pc = "ref_loop"
    /\ size = MaxBytes
    /\ pbegin = size
    /\ temp_size = MinDigits(size)
    /\ b58[1] # 0

\* C7: once the checksum is embedded, bytes [0,4) of the buffer are the first
\* four bytes of the double hash of the original contents, every other byte
\* is as it was, and what is encoded is the buffer so changed.
ChecksumEmbedded ==
    /\ pc \in AfterRefChecksum \cup AfterNewChecksum =>
           \A i \in 1..Len(message) :
               message[i] = IF i <= ChecksumLen
                            THEN digest[i]
                            ELSE (orig \o Adjacent)[i]
    /\ (pc = "ref_loop" /\ pbegin = size /\ ScratchSuffices) =>
           DigitsValue(b58, size).acc = Payload(message)
    /\ (pc = "new_div" /\ coeff = << >>) =>
           \A i \in 1..size : toDecodeMP[size + 1 - i] = message[i]

ChecksumEmbeddedWitness ==
    /\ pc = "new_div"
    /\ coeff = << >>
    /\ size = 20
    /\ orig = Fill(20, 255)
    /\ SubSeq(message, 1, 5) = << 0, 0, 1, 255, 255 >>

\* C8: for encoded bytes that do not begin with a zero byte, the new
\* encoder's string is the shortest base-58 writing of their number: it does
\* not begin with the zero-symbol and its digits sum to the number, whatever
\* zero digits the coefficients hold.
NewMinimalRepresentation ==
    (pc = "done" /\ size > 0 /\ message[1] # 0) =>
        /\ newEncoded # << >>
        /\ InAlphabet(newEncoded)
        /\ newEncoded[1] # rippleAlphabet[1]
        /\ SameNumber(Ords(newEncoded), Payload(message))

\* coefficients {1, 0, 1}: the middle chunk is ten zero digits
InteriorZeroChunkWitness ==
    /\ pc = "done"
    /\ message[1] # 0
    /\ Len(coeff) = 3
    /\ coeff[2] = U64Zero
    /\ Len(newEncoded) = 2 * ChunkDigits + 1

\* C9: the division by 58^10 ends with the integer at 0 after at most five
\* coefficients, each below 58^10 and so within 64 bits.
ChunksBounded ==
    /\ pc # "new_overflow"
    /\ Len(coeff) <= CoeffCapacity
    /\ \A i \in 1..Len(coeff) :
           U64Less(coeff[i], b5810) /\ U64Less(coeff[i], TwoTo64)
    /\ pc \in {"new_emit", "done"} => toDecodeMP = MPZero

FiveChunksWitness ==
    /\ pc = "done"
    /\ size = MaxBytes
    /\ Len(coeff) = CoeffCapacity
    /\ coeff[CoeffCapacity] # U64Zero

\* C10: every offset either encoder writes in the caller's buffer is below
\* the size it was given.
WritesInsidePayload == \A o \in written : o < size

====
